---- MODULE Spec2Model ----
(***************************************************************************)
(* ia2xl: conversion of a parsed interview and its coding configuration    *)
(* into a workbook with locked sheets and list validation.                 *)
(*                                                                         *)
(* Text is modelled as a tuple of one-character strings, so that string    *)
(* formatting (f"{a}_{b}", f"{col}{row}", str(n), chr(n)) and parsing      *)
(* (int(), float(), the coordinate parser of the workbook library) are     *)
(* computed rather than assumed.                                           *)
(***************************************************************************)
EXTENDS Integers, Sequences, FiniteSets, TLC

(***************************************************************************)
(* Bounds of the model                                                     *)
(***************************************************************************)
\* Spec: total number of properties (coding + global) of a configuration
MaxProps == 3
\* number of utterances of an interview
MaxUtt == 2
\* SpecWide: number of coding properties of a wide configuration
MaxWide == 25

(***************************************************************************)
(* Text helpers                                                            *)
(***************************************************************************)
Upper == <<"A","B","C","D","E","F","G","H","I","J","K","L","M",
           "N","O","P","Q","R","S","T","U","V","W","X","Y","Z">>
Lower == <<"a","b","c","d","e","f","g","h","i","j","k","l","m",
           "n","o","p","q","r","s","t","u","v","w","x","y","z">>
Digits == <<"0","1","2","3","4","5","6","7","8","9">>

\* the six characters between "Z" (90) and "a" (97); the backslash and the grave
\* accent are written out by name
Between == <<"[","BACKSLASH","]","^","_","GRAVE">>

\* a chr that wraps around after "Z"
ChrWrapped(n) == Upper[((n - 65) % 26) + 1]

\* chr(n) for the code points 65..122
Chr(n) ==
    IF n >= 65 /\ n <= 90 THEN Upper[n - 64]
    ELSE IF n >= 91 /\ n <= 96 THEN Between[n - 90]
    ELSE Lower[n - 96]

IsDigit(c) == \E d \in 1..10 : Digits[d] = c
DigitVal(c) == (CHOOSE d \in 1..10 : Digits[d] = c) - 1
\* [A-Za-z] of the coordinate pattern
IsLetter(c) == \E l \in 1..26 : Upper[l] = c \/ Lower[l] = c
\* the letter's position in the alphabet, case folded (column_index_from_string
\* upper-cases its argument)
LetterVal(c) == CHOOSE l \in 1..26 : Upper[l] = c \/ Lower[l] = c

RECURSIVE IntToStr(_)
\* str(n) for n >= 0
IntToStr(n) ==
    IF n < 10 THEN <<Digits[n + 1]>>
    ELSE IntToStr(n \div 10) \o <<Digits[(n % 10) + 1]>>

RECURSIVE DigitsToInt(_)
\* the value of a non-empty run of decimal digits
DigitsToInt(s) ==
    IF Len(s) = 0 THEN 0
    ELSE 10 * DigitsToInt(SubSeq(s, 1, Len(s) - 1)) + DigitVal(s[Len(s)])

AllDigits(s) == \A i \in 1..Len(s) : IsDigit(s[i])

\* position of the first occurrence of c in s, 0 when absent
IndexOf(s, c) ==
    IF \E i \in 1..Len(s) : s[i] = c
    THEN CHOOSE i \in 1..Len(s) : s[i] = c /\ \A j \in 1..(i - 1) : s[j] # c
    ELSE 0

\* length of the longest prefix of s made of letters
LetterPrefix(s) ==
    CHOOSE n \in 0..Len(s) :
        /\ \A i \in 1..n : IsLetter(s[i])
        /\ (n < Len(s) => ~IsLetter(s[n + 1]))

(***************************************************************************)
(* The workbook library, as far as the program uses it                     *)
(***************************************************************************)
RECURSIVE ColumnIndexFromString(_)
\* the 1-based column number of a run of letters ("A" = 1, "Z" = 26, "AA" = 27)
ColumnIndexFromString(s) ==
    IF Len(s) = 0 THEN 0
    ELSE 26 * ColumnIndexFromString(SubSeq(s, 1, Len(s) - 1)) + LetterVal(s[Len(s)])

RECURSIVE GetColumnLetter(_)
\* get_column_letter(n): the letters of the 1-based column number n
GetColumnLetter(n) ==
    IF n <= 26 THEN <<Upper[n]>>
    ELSE GetColumnLetter((n - 1) \div 26) \o <<Upper[((n - 1) % 26) + 1]>>

\* one end of a coordinate whose first n characters are its letters: at most
\* three letters, then digits, and nothing else; col and row are 0 where the
\* part is absent
EndpointAt(s, n) ==
    [ok  |-> n <= 3 /\ AllDigits(SubSeq(s, n + 1, Len(s))),
     col |-> IF n <= 3 THEN ColumnIndexFromString(SubSeq(s, 1, n)) ELSE 0,
     row |-> IF AllDigits(SubSeq(s, n + 1, Len(s)))
             THEN DigitsToInt(SubSeq(s, n + 1, Len(s))) ELSE 0]

Endpoint(s) == EndpointAt(s, LetterPrefix(s))

\* the text before and after the separator at position k (the whole text on
\* both sides when there is none)
Before(s, k) == IF k = 0 THEN s ELSE SubSeq(s, 1, k - 1)
After(s, k) == IF k = 0 THEN s ELSE SubSeq(s, k + 1, Len(s))

\* the bounds given by the two ends a and b; with a separator, the ends must both
\* be cells, both be columns or both be rows
BoundsOf(sep, a, b) ==
    [ok |-> /\ a.ok
            /\ b.ok
            /\ (sep => \/ (a.col > 0 /\ a.row > 0 /\ b.col > 0 /\ b.row > 0)
                       \/ (a.col > 0 /\ b.col > 0)
                       \/ (a.row > 0 /\ b.row > 0)),
     min_col |-> a.col, min_row |-> a.row,
     max_col |-> b.col, max_row |-> b.row]

\* range_boundaries(range_string): the bounds of "D2", "D2:D7", or ok = FALSE
\* where the library raises ValueError (not a valid coordinate or range)
RangeBoundaries(s) ==
    BoundsOf(IndexOf(s, ":") > 0,
             Endpoint(Before(s, IndexOf(s, ":"))),
             Endpoint(After(s, IndexOf(s, ":"))))

\* the bounds of a CellRange must be ordered
Ordered(rb) ==
    [rb EXCEPT !.ok = rb.ok /\ rb.min_col <= rb.max_col /\ rb.min_row <= rb.max_row]

\* CellRange(range_string), as DataValidation.add builds it
CellRange(s) == Ordered(RangeBoundaries(s))

\* cell values: text, number (integer part and fraction digits without trailing
\* zeros, so that 2 and 2.0 are the same number) or None
StrCell(s) == [kind |-> "str", text |-> s, int |-> 0, frac |-> <<>>]
NumCell(i, f) == [kind |-> "num", text |-> <<>>, int |-> i, frac |-> f]
None == [kind |-> "none", text |-> <<>>, int |-> 0, frac |-> <<>>]

\* openpyxl.Workbook(): one visible, unprotected sheet titled "Sheet"
NewSheet(title) ==
    [title |-> title,
     rows |-> <<>>,
     protection |-> [sheet |-> FALSE, password |-> <<>>],
     sheet_state |-> "visible",
     unlocked |-> {},
     data_validations |-> <<>>]

NewWorkbook == << NewSheet(<<"S","h","e","e","t">>) >>

\* Workbook.sheetnames
SheetNames(w) == { w[i].title : i \in 1..Len(w) }

\* Worksheet.max_row (a sheet without cells reports 1)
MaxRow(sh) == IF Len(sh.rows) = 0 THEN 1 ELSE Len(sh.rows)

\* Worksheet.append(row)
AppendRow(sh, row) == [sh EXCEPT !.rows = Append(sh.rows, row)]

\* the title a new sheet gets: a title already in use is made unique by a
\* numeric suffix (the library never holds two sheets of one title by itself)
FreshTitle(w, title) == IF title \in SheetNames(w) THEN title \o <<"1">> ELSE title

\* Workbook.create_sheet(title): appended at the end
CreateSheet(w, title) == Append(w, NewSheet(FreshTitle(w, title)))

\* Workbook.create_sheet(title, index): inserted before position index (0-based)
CreateSheetAt(w, title, index) ==
    SubSeq(w, 1, index) \o << NewSheet(FreshTitle(w, title)) >>
        \o SubSeq(w, index + 1, Len(w))

\* the sheet of workbook w titled t
SheetIndex(w, t) == CHOOSE i \in 1..Len(w) : w[i].title = t

(***************************************************************************)
(* Inputs: the parsed configuration and the parsed interview               *)
(***************************************************************************)
PropertyValue(v, n, pid) ==
    [value |-> v, description |-> <<"d">>, property_value_id |-> n, property_id |-> pid]

Property(name, pid, dt, dd, vals) ==
    [class |-> "_CodingProperty", display_name |-> name, property_id |-> pid,
     data_type |-> dt, decimal_digits |-> dd,
     values |-> [i \in 1..Len(vals) |-> PropertyValue(vals[i], i, pid)]]

\* the properties a small configuration draws from: an integer scale, a text
\* property whose formatted name equals that of the scale, a decimal scale and a
\* property without values
PropertyPool ==
    { Property(<<"a","_","b">>, <<"c">>, "numeric", 0, << <<"1">>, <<"0","2">> >>),
      Property(<<"a">>, <<"b","_","c">>, "text", 0, << <<"x">> >>),
      Property(<<"b">>, <<"1">>, "numeric", 1, << <<"1",".","5","0">>, <<"2">> >>),
      Property(<<"c">>, <<"1">>, "text", 0, << >>) }

\* the j-th property of a wide configuration: distinct identifiers, one value
WideProperty(j) == Property(<<"w">>, IntToStr(j), "text", 0, << <<"x">> >>)

AsGlobal(p) == [p EXCEPT !.class = "_GlobalProperty"]

Utterance(line, utt, role, text) ==
    [line_number |-> line, utterance_number |-> utt, speaker_role |-> role,
     utterance_text |-> text]

UtterancePool ==
    { Utterance(1, 1, <<"T">>, <<"h","i">>), Utterance(1, 2, <<"C">>, <<"o","k">>) }

\* sequences over S of length at most n
SeqUpTo(S, n) == UNION { [1..m -> S] : m \in 0..n }

(***************************************************************************)
(* _append_validation_sheet_                                               *)
(***************************************************************************)
NoError == [type |-> "none", at |-> "none"]
Raised(type, at) == [type |-> type, at |-> at]

\* int(s): decimal digits only (the inputs drawn here hold no sign, blank or
\* underscore); ok is FALSE where int raises ValueError
IntOf(s) ==
    [ok |-> Len(s) > 0 /\ AllDigits(s),
     cell |-> IF AllDigits(s) THEN NumCell(DigitsToInt(s), <<>>) ELSE None]

RECURSIVE StripZeros(_)
\* fraction digits without their trailing zeros
StripZeros(f) ==
    IF Len(f) > 0 /\ f[Len(f)] = 0 THEN StripZeros(SubSeq(f, 1, Len(f) - 1)) ELSE f

\* the number with integer digits ip and fraction digits fp
FloatOfParts(ip, fp) ==
    IF AllDigits(ip) /\ AllDigits(fp) /\ Len(ip) + Len(fp) > 0
    THEN [ok |-> TRUE,
          cell |-> NumCell(DigitsToInt(ip),
                           StripZeros([i \in 1..Len(fp) |-> DigitVal(fp[i])]))]
    ELSE [ok |-> FALSE, cell |-> None]

\* float(s): digits with at most one decimal point and at least one digit; ok
\* is FALSE where float raises ValueError
FloatOf(s) ==
    FloatOfParts(Before(s, IndexOf(s, ".")),
                 IF IndexOf(s, ".") = 0 THEN <<>> ELSE After(s, IndexOf(s, ".")))

\* data_type(pv.value), with data_type chosen from the property's declared type
Coerce(property, v) ==
    IF property.data_type = "numeric" /\ property.decimal_digits = 0 THEN IntOf(v)
    ELSE IF property.data_type = "numeric" THEN FloatOf(v)
    ELSE [ok |-> TRUE, cell |-> StrCell(v)]

\* f"{property.display_name}_{property.property_id}"
SheetName(property) == property.display_name \o <<"_">> \o property.property_id

\* a builder that never finds the sheet
SheetNeverExists(w, name) == FALSE

\* sheet_name in workbook.sheetnames
SheetExists(w, name) == name \in SheetNames(w)

ValidationHeader ==
    << StrCell(<<"property_value">>), StrCell(<<"property_description">>),
       StrCell(<<"property_value_id">>), StrCell(<<"property_id">>) >>

\* new_sheet.append((data_type(pv.value), pv.description, pv.property_value_id,
\* pv.property_id)), where c is the outcome of data_type(pv.value)
AppendValue(st, pv, c) ==
    IF ~c.ok THEN [st EXCEPT !.err = Raised("ValueError", "coerce")]
    ELSE [st EXCEPT !.sheet = AppendRow(st.sheet,
              << c.cell, StrCell(pv.description),
                 NumCell(pv.property_value_id, <<>>), StrCell(pv.property_id) >>)]

RECURSIVE AppendValues(_, _, _)
\* for pv in property, from value n on; a value that does not coerce raises and
\* leaves the rows written so far
AppendValues(st, property, n) ==
    IF n > Len(property.values) \/ st.err # NoError THEN st
    ELSE AppendValues(
            AppendValue(st, property.values[n], Coerce(property, property.values[n].value)),
            property, n + 1)

NoSheet == [none |-> TRUE, title |-> <<>>]
SheetRef(t) == [none |-> FALSE, title |-> t]

\* new_sheet.protection.enable(), .password = pwd, .sheet_state = 'hidden'
ProtectAndHide(sh, pwd) ==
    [sh EXCEPT !.protection = [sheet |-> TRUE, password |-> pwd],
               !.sheet_state = "hidden"]

\* the end of the builder, where st is the new sheet after the loop over the
\* values and the exception the loop raised, if any
ReturnNewSheet(w1, st, pwd) ==
    IF st.err # NoError
    THEN [wb |-> [w1 EXCEPT ![Len(w1)] = st.sheet], sheet |-> NoSheet, err |-> st.err]
    ELSE [wb |-> [w1 EXCEPT ![Len(w1)] = ProtectAndHide(st.sheet, pwd)],
          sheet |-> SheetRef(st.sheet.title), err |-> NoError]

\* the branch that builds the sheet, where w1 is the workbook after create_sheet
FillNewSheet(w1, property, pwd) ==
    ReturnNewSheet(w1,
                   AppendValues([sheet |-> AppendRow(w1[Len(w1)], ValidationHeader),
                                 err |-> NoError], property, 1),
                   pwd)

\* _append_validation_sheet_(workbook, property): the workbook afterwards, the
\* sheet returned (NoSheet for Python's None) and the exception raised, if any;
\* the password defaults to the sheet name
AppendValidationSheet(w, property) ==
    IF ~SheetExists(w, SheetName(property))
    THEN FillNewSheet(CreateSheet(w, SheetName(property)), property, SheetName(property))
    ELSE [wb |-> w, sheet |-> NoSheet, err |-> NoError]

(***************************************************************************)
(* _set_validation_                                                        *)
(***************************************************************************)
\* the list rule's source, f"{quote_sheetname(title)}!$A$2:$A${vsheet.max_row}":
\* the sheet it names and the reference text
Formula1(vsheet) ==
    [sheet |-> vsheet.title,
     ref |-> <<"$","A","$","2",":","$","A","$">> \o IntToStr(MaxRow(vsheet))]

\* the address of the cells to validate
CellAddress(data_sheet, idx, is_global) ==
    LET column == IF ~is_global THEN idx ELSE <<"B">>
    IN  IF is_global THEN <<"B">> \o idx
        ELSE column \o <<"2",":">> \o column \o IntToStr(MaxRow(data_sheet))

\* DataValidation(type="list", formula1=..., allow_blank=True) with the cell
\* range cr added to it
DataValidation(formula1, cr) ==
    [type |-> "list", formula1 |-> formula1, allow_blank |-> TRUE,
     sqref |-> [min_col |-> cr.min_col, min_row |-> cr.min_row,
                max_col |-> cr.max_col, max_row |-> cr.max_row]]

\* dv.add(cell_address), which raises on an address that is no cell range, and
\* data_sheet.add_data_validation(dv)
AddDataValidation(w, data_sheet, formula1, cr) ==
    IF ~cr.ok
    THEN [wb |-> w, err |-> Raised("ValueError", "dv.add")]
    ELSE [wb |-> [w EXCEPT ![data_sheet].data_validations =
                      Append(w[data_sheet].data_validations, DataValidation(formula1, cr))],
          err |-> NoError]

\* _set_validation_(data_sheet, idx, vsheet, is_global) on workbook w, where
\* data_sheet is a position in w and vsheet the sheet returned by
\* _append_validation_sheet_: the workbook afterwards and the exception, if any
\* (vsheet.title of None raises AttributeError)
SetValidation(w, data_sheet, idx, vsheet, is_global) ==
    IF vsheet.none
    THEN [wb |-> w, err |-> Raised("AttributeError", "vsheet.title")]
    ELSE AddDataValidation(w, data_sheet,
                           Formula1(w[SheetIndex(w, vsheet.title)]),
                           CellRange(CellAddress(w[data_sheet], idx, is_global)))

(***************************************************************************)
(* _build_global_sheet_ and _build_interview_sheet_                        *)
(***************************************************************************)
InterviewTitle == <<"I","n","t","e","r","v","i","e","w">>
GlobalTitle == <<"G","l","o","b","a","l"," ","R","a","t","i","n","g","s">>

\* sheet[key].protection = Protection(locked=False, hidden=False) for the key of
\* one cell with bounds rb; st is the sheet and the exception raised so far
UnlockAt(st, rb) ==
    IF st.err # NoError THEN st
    ELSE IF ~rb.ok \/ rb.min_col = 0 \/ rb.min_row = 0
         THEN [st EXCEPT !.err = Raised("ValueError", "unlock")]
         ELSE [st EXCEPT !.sheet.unlocked = @ \cup { <<rb.min_col, rb.min_row>> }]

UnlockCell(st, key) == UnlockAt(st, RangeBoundaries(key))

RECURSIVE UnlockRatings(_, _, _)
\* for i, row in enumerate(sheet.rows, 1): sheet[f"B{i}"] is unlocked
UnlockRatings(st, i, last) ==
    IF i > last THEN st
    ELSE UnlockRatings(UnlockCell(st, <<"B">> \o IntToStr(i)), i + 1, last)

RECURSIVE AppendGlobals(_, _, _)
AppendGlobals(sh, globals, n) ==
    IF n > Len(globals) THEN sh
    ELSE AppendGlobals(AppendRow(sh, << StrCell(globals[n].display_name) >>),
                       globals, n + 1)

\* the rows of the global sheet: the header, then one row per global property;
\* the sheet is protected with its fixed password
GlobalRows(sh, globals) ==
    AppendGlobals(
        [AppendRow(sh, << StrCell(<<"Global">>), StrCell(<<"Rating">>) >>)
            EXCEPT !.protection = [sheet |-> TRUE, password |-> <<"Globals">>]],
        globals, 1)

\* the loop over sheet.rows that unlocks column B
UnlockGlobalRows(sh) == UnlockRatings([sheet |-> sh, err |-> NoError], 1, Len(sh.rows))

\* the workbook with the built sheet at position i, and the exception, if any
PutSheet(w, i, st) == [wb |-> [w EXCEPT ![i] = st.sheet], err |-> st.err]

\* the builder after create_sheet, where w1 holds the new sheet at position 2
BuildGlobalSheetIn(w1, ia_config) ==
    PutSheet(w1, 2, UnlockGlobalRows(GlobalRows(w1[2], ia_config.global_properties)))

\* _build_global_sheet_(wb, ia_config): the workbook afterwards and the
\* exception raised, if any (borders and column width carry no state here)
BuildGlobalSheet(w, ia_config) ==
    BuildGlobalSheetIn(CreateSheetAt(w, GlobalTitle, 1), ia_config)

\* the character code of the first coding column in the unlocking loop
UnlockColumnStart == 68

\* the row unlocked for the i-th utterance (i counts from 1)
UnlockRow(i) == i

\* a loop that numbers the columns one too far
UnlockColumnCodeOffByOne(n) == UnlockColumnStart + n + 1

\* col of enumerate(coding_properties, 68), for the n-th property counted from 0
UnlockColumnCode(n) == UnlockColumnStart + n

RECURSIVE UnlockCoding(_, _, _, _)
\* for col, cp in enumerate(coding_properties, 68): sheet[f"{chr(col)}{i}"] is
\* unlocked; n counts the coding properties done
UnlockCoding(st, i, n, count) ==
    IF n >= count \/ st.err # NoError THEN st
    ELSE UnlockCoding(
            UnlockCell(st, <<Chr(UnlockColumnCode(n))>> \o IntToStr(UnlockRow(i))),
            i, n + 1, count)

\* a row with the utterance number and the line number exchanged
NewLineSwapped(utt, coding) ==
    << NumCell(utt.utterance_number, <<>>), NumCell(utt.line_number, <<>>),
       StrCell(utt.speaker_role) >>
    \o [j \in 1..Len(coding) |-> None]
    \o << StrCell(utt.utterance_text) >>

\* [utt.line_number, utt.utterance_number, utt.speaker_role]
\*     + [None for cp in coding_properties] + [utt.utterance_text]
NewLine(utt, coding) ==
    << NumCell(utt.line_number, <<>>), NumCell(utt.utterance_number, <<>>),
       StrCell(utt.speaker_role) >>
    \o [j \in 1..Len(coding) |-> None]
    \o << StrCell(utt.utterance_text) >>

RECURSIVE AppendUtterances(_, _, _, _)
\* for i, utt in enumerate(interview.utterances, 1): the row is appended, then
\* the coding cells are unlocked; an exception ends the loop
AppendUtterances(st, utterances, coding, i) ==
    IF i > Len(utterances) \/ st.err # NoError THEN st
    ELSE AppendUtterances(
            UnlockCoding([st EXCEPT !.sheet = AppendRow(st.sheet,
                                                  NewLine(utterances[i], coding))],
                         i, 0, Len(coding)),
            utterances, coding, i + 1)

\* ['Line', 'Utt', 'Role'] + [cp.display_name ...] + ['Text']
ColumnHeaders(coding) ==
    << StrCell(<<"Line">>), StrCell(<<"Utt">>), StrCell(<<"Role">>) >>
    \o [j \in 1..Len(coding) |-> StrCell(coding[j].display_name)]
    \o << StrCell(<<"Text">>) >>

\* the active sheet retitled, with its header row, protected with its fixed
\* password
InterviewHeader(sh, coding) ==
    [AppendRow([sh EXCEPT !.title = InterviewTitle], ColumnHeaders(coding))
        EXCEPT !.protection = [sheet |-> TRUE, password |-> <<"Interview">>]]

\* _build_interview_sheet_(wb, ia_config, interview): the workbook afterwards
\* and the exception raised, if any (widths, alignment and borders carry no
\* state here)
BuildInterviewSheet(w, ia_config, interview) ==
    PutSheet(w, 1,
             AppendUtterances(
                [sheet |-> InterviewHeader(w[1], ia_config.coding_properties),
                 err |-> NoError],
                interview.utterances, ia_config.coding_properties, 1))

(***************************************************************************)
(* ia2xl                                                                   *)
(***************************************************************************)
VARIABLES
    iacfg,            \* the parsed configuration
    interview,        \* the parsed interview
    wb,               \* the workbook: its sheets in order
    pc,               \* where ia2xl stands
    cp_index,         \* position of cp in coding_properties + global_properties
    property_column,  \* character code of the last coding column assigned
    global_row,       \* last row of the global sheet assigned
    sheet,            \* what _append_validation_sheet_ last returned
    idx,              \* the location last passed to _set_validation_
    err               \* the exception that ended the run, if any

vars == << iacfg, interview, wb, pc, cp_index, property_column, global_row,
           sheet, idx, err >>

InitPropertyColumn == 67
InitGlobalRow == 1

\* iacfg.coding_properties + iacfg.global_properties
AllProperties == iacfg.coding_properties \o iacfg.global_properties

\* isinstance(cp, _GlobalProperty)
IsGlobal(cp) == cp.class = "_GlobalProperty"

\* a column counter that is never advanced
NextPropertyColumnStuck(c) == c

\* property_column += 1
NextPropertyColumn(c) == c + 1
\* global_row += 1
NextGlobalRow(r) == r + 1

\* positions of the two data sheets in the workbook
Utterances == 1
GlobalData == 2

InitLocals ==
    /\ wb = NewWorkbook
    /\ pc = "interview"
    /\ cp_index = 1
    /\ property_column = InitPropertyColumn
    /\ global_row = InitGlobalRow
    /\ sheet = NoSheet
    /\ idx = <<>>
    /\ err = NoError

\* small configurations over the property pool
Init ==
    /\ \E c \in SeqUpTo(PropertyPool, MaxProps), g \in SeqUpTo(PropertyPool, MaxProps) :
          /\ Len(c) + Len(g) <= MaxProps
          /\ iacfg = [coding_properties |-> c,
                      global_properties |-> [i \in 1..Len(g) |-> AsGlobal(g[i])]]
    /\ interview \in { [utterances |-> u] : u \in SeqUpTo(UtterancePool, MaxUtt) }
    /\ InitLocals

\* wide configurations: many coding properties of distinct names
InitWide ==
    /\ \E n \in 0..MaxWide, g \in 0..1 :
          iacfg = [coding_properties |-> [j \in 1..n |-> WideProperty(j)],
                   global_properties |-> [j \in 1..g |-> AsGlobal(WideProperty(n + j))]]
    /\ interview \in { [utterances |-> u] : u \in SeqUpTo(UtterancePool, MaxUtt) }
    /\ InitLocals

\* a call returns r: the workbook is as the callee left it, and ia2xl goes on at
\* next unless the callee raised
Returned(r, next) ==
    /\ wb' = r.wb
    /\ err' = r.err
    /\ pc' = IF r.err = NoError THEN next ELSE "raised"

\* utterances = _build_interview_sheet_(wb, iacfg, interview)
DoBuildInterviewSheet ==
    /\ pc = "interview"
    /\ Returned(BuildInterviewSheet(wb, iacfg, interview), "global")
    /\ UNCHANGED << iacfg, interview, cp_index, property_column, global_row, sheet, idx >>

\* global_data = _build_global_sheet_(wb, iacfg)
DoBuildGlobalSheet ==
    /\ pc = "global"
    /\ Returned(BuildGlobalSheet(wb, iacfg), "loop")
    /\ UNCHANGED << iacfg, interview, cp_index, property_column, global_row, sheet, idx >>

\* the sheet _append_validation_sheet_ returned is bound to the local of ia2xl
ReturnedSheet(r) ==
    /\ sheet' = r.sheet
    /\ Returned(r, "wire")

\* sheet = _append_validation_sheet_(wb, cp), for the next cp of the loop
DoAppendValidationSheet ==
    /\ pc = "loop"
    /\ cp_index <= Len(AllProperties)
    /\ ReturnedSheet(AppendValidationSheet(wb, AllProperties[cp_index]))
    /\ UNCHANGED << iacfg, interview, cp_index, property_column, global_row, idx >>

\* an idx formatted before the increment
GlobalIdxStale(row) == IntToStr(row)

\* idx for a global property: str(global_row) after the increment
GlobalIdx(row) == IntToStr(NextGlobalRow(row))
\* idx for a coding property: chr(property_column) after the increment
CodingIdx(col) == <<Chr(NextPropertyColumn(col))>>

\* _set_validation_(data_sheet, idx, sheet, is_global) with the idx just formatted;
\* the loop goes on to the next property unless the call raised
Wire(data_sheet, i, is_global) ==
    /\ idx' = i
    /\ Returned(SetValidation(wb, data_sheet, i, sheet, is_global), "loop")
    /\ cp_index' = IF err' = NoError THEN cp_index + 1 ELSE cp_index

\* the rest of the loop body: the counter of the property's kind advances, idx
\* is formatted from it and _set_validation_ is called
DoSetValidation ==
    /\ pc = "wire"
    /\ IF IsGlobal(AllProperties[cp_index])
       THEN /\ global_row' = NextGlobalRow(global_row)
            /\ property_column' = property_column
            /\ Wire(GlobalData, GlobalIdx(global_row), TRUE)
       ELSE /\ property_column' = NextPropertyColumn(property_column)
            /\ global_row' = global_row
            /\ Wire(Utterances, CodingIdx(property_column), FALSE)
    /\ UNCHANGED << iacfg, interview, sheet >>

\* return wb
Return ==
    /\ pc = "loop"
    /\ cp_index > Len(AllProperties)
    /\ pc' = "done"
    /\ UNCHANGED << iacfg, interview, wb, cp_index, property_column, global_row,
                    sheet, idx, err >>

Next ==
    \/ DoBuildInterviewSheet
    \/ DoBuildGlobalSheet
    \/ DoAppendValidationSheet
    \/ DoSetValidation
    \/ Return

Spec == Init /\ [][Next]_vars
SpecWide == InitWide /\ [][Next]_vars

(***************************************************************************)
(* What is read off a state                                                *)
(***************************************************************************)
nCoding == Len(iacfg.coding_properties)
nGlobal == Len(iacfg.global_properties)
nUtt == Len(interview.utterances)

\* _build_interview_sheet_ has returned
InterviewBuilt == pc \in {"global", "loop", "wire", "done"} \/ (pc = "raised" /\ Len(wb) >= 2)
\* _build_global_sheet_ has returned
GlobalBuilt == pc \in {"loop", "wire", "done"} \/ (pc = "raised" /\ Len(wb) >= 2)

\* the validation rules of the Interview sheet and of the Global Ratings sheet
InterviewRules(w) == w[Utterances].data_validations
GlobalRules(w) == IF Len(w) >= GlobalData THEN w[GlobalData].data_validations ELSE <<>>

\* the coding-property columns that fit the single letters after the three fixed
\* columns A, B and C
AddressableCodingColumns == Len(Upper) - 3

\* a reference as the spreadsheet reads it: "$" marks an absolute reference and
\* the range operator ":" denotes the rectangle spanned by its two ends, in
\* whichever order they are written
StripAbsolute(ref) == SelectSeq(ref, LAMBDA c : c # "$")
RowsSpanned(rb) ==
    IF rb.min_row <= rb.max_row THEN rb.min_row..rb.max_row
    ELSE rb.max_row..rb.min_row
ListRows(dv) == RowsSpanned(RangeBoundaries(StripAbsolute(dv.formula1.ref)))

\* the non-blank values a list rule offers: those of the cells of column A of the
\* sheet it names, in the rows of its reference
ListValues(w, dv) ==
    { w[SheetIndex(w, dv.formula1.sheet)].rows[r][1] :
        r \in ListRows(dv) \cap (1..Len(w[SheetIndex(w, dv.formula1.sheet)].rows)) }

\* the values of a property after coercion to its declared type
CoercedValues(p) == { Coerce(p, p.values[i].value).cell : i \in 1..Len(p.values) }

\* entries a coder may type: any value of any first column of the workbook
Entries(w) ==
    UNION { { w[i].rows[r][1] : r \in 1..Len(w[i].rows) } : i \in 1..Len(w) } \ {None}

(***************************************************************************)
(* Claims                                                                  *)
(***************************************************************************)

\* the properties whose reference-sheet name no earlier property has
FirstOfName == { i \in 1..Len(AllProperties) :
                    \A j \in 1..(i - 1) : SheetName(AllProperties[j]) # SheetName(AllProperties[i]) }

\* C1: when two properties of the configuration yield the same reference-sheet
\* name, the conversion does not fail: no exception ends the run after the
\* builder has declined to build the second sheet, and the workbook returned
\* holds a rule for every property that is the first of its name.
C1_CollisionIsNotFatal ==
    /\ ~(pc = "raised" /\ sheet.none /\ err.type = "AttributeError")
    /\ pc = "done" =>
          Len(InterviewRules(wb)) + Len(GlobalRules(wb)) = Cardinality(FirstOfName)

\* C2: once _build_interview_sheet_ has returned, the unlocked cells of the
\* Interview sheet are exactly the coding-property cells (columns 4..3+C) of the
\* data rows 2..N+1; headers, Line/Utt/Role and Text stay locked.
C2_UnlockedExactlyCodingCells ==
    InterviewBuilt =>
        wb[Utterances].unlocked =
            { <<3 + j, r>> : j \in 1..nCoding, r \in 2..(nUtt + 1) }

\* C3: once _build_global_sheet_ has returned, the Global Ratings sheet is
\* protected and its unlocked cells are exactly the Rating cells B2..B(G+1); the
\* header row and the global-name column stay locked.
C3_GlobalUnlocksOnlyRatings ==
    GlobalBuilt =>
        /\ wb[GlobalData].protection.sheet
        /\ wb[GlobalData].unlocked = { <<2, r>> : r \in 2..(nGlobal + 1) }

\* the columns validated on the Interview sheet and the rows validated on the
\* Global Ratings sheet
ValidatedColumns(w) ==
    { InterviewRules(w)[m].sqref.min_col : m \in 1..Len(InterviewRules(w)) }
ValidatedRows(w) ==
    { GlobalRules(w)[m].sqref.min_row : m \in 1..Len(GlobalRules(w)) }

\* no two rules of a data sheet share a column (Interview) or a row (Global)
DistinctLocations(w) ==
    /\ Cardinality(ValidatedColumns(w)) = Len(InterviewRules(w))
    /\ Cardinality(ValidatedRows(w)) = Len(GlobalRules(w))

\* C4: in every step of ia2xl the column and row counters only increase and no
\* two properties hold the same column or the same global row; when ia2xl has
\* iterated all properties, the validated columns of the Interview sheet are as
\* many as the coding properties and the validated rows of the Global Ratings
\* sheet as many as the global properties.
C4_CountersGiveDistinctLocations ==
    [][ /\ property_column' >= property_column
        /\ global_row' >= global_row
        /\ DistinctLocations(wb')
        /\ (pc' = "done" =>
               /\ Cardinality(ValidatedColumns(wb')) = nCoding
               /\ Cardinality(ValidatedRows(wb')) = nGlobal) ]_vars

C4_Witness ==
    pc = "done" /\ nCoding >= 2 /\ nGlobal >= 1

RuleProperty(is_global, m) ==
    IF is_global THEN iacfg.global_properties[m] ELSE iacfg.coding_properties[m]

\* a list rule accepts exactly the coerced values of property p (blank aside),
\* reads its values from row 2 to the last row of the reference sheet, and does
\* not reach the header row
RuleMatchesProperty(w, dv, p) ==
    /\ dv.allow_blank
    /\ dv.formula1.sheet = SheetName(p)
    /\ 1 \notin ListRows(dv)
    /\ \A r \in 2..Len(w[SheetIndex(w, dv.formula1.sheet)].rows) : r \in ListRows(dv)
    /\ \A e \in Entries(w) : e \in ListValues(w, dv) <=> e \in CoercedValues(p)

\* C6: for every property, one without values included, the rule wired for it
\* accepts a non-blank entry exactly if it equals one of the property's values
\* after coercion; its source runs from row 2 to the last populated row of the
\* reference sheet and never includes the header row; blank is allowed.
C6_RuleAcceptsExactlyTheValues ==
    /\ \A m \in 1..Len(InterviewRules(wb)) :
          RuleMatchesProperty(wb, InterviewRules(wb)[m], RuleProperty(FALSE, m))
    /\ \A m \in 1..Len(GlobalRules(wb)) :
          RuleMatchesProperty(wb, GlobalRules(wb)[m], RuleProperty(TRUE, m))

\* the sheets of workbook w titled t
Titled(w, t) == { i \in 1..Len(w) : w[i].title = t }

\* C7: a call of _append_validation_sheet_ for a property whose sheet the
\* workbook already holds returns no sheet and leaves the workbook as it was;
\* after every call the workbook holds exactly one sheet of that name.
C7_SecondRequestIsNoOp ==
    [][ (pc = "loop" /\ pc' # "loop" /\ pc' # "done") =>
            /\ (SheetName(AllProperties[cp_index]) \in SheetNames(wb) =>
                    /\ wb' = wb
                    /\ sheet' = NoSheet
                    /\ err' = NoError)
            /\ Cardinality(Titled(wb', SheetName(AllProperties[cp_index]))) = 1 ]_vars

C7_Witness ==
    /\ pc = "wire"
    /\ sheet = NoSheet
    /\ \E i \in 1..(cp_index - 1) : AllProperties[i] = AllProperties[cp_index]

\* C8: once _build_interview_sheet_ has returned, the Interview sheet has one row
\* per utterance after the header, in input order: row i+1 holds the line
\* number, utterance number, speaker role and text of utterance i, and its
\* coding-property cells are blank.
C8_RowsFollowUtterances ==
    InterviewBuilt =>
        /\ Len(wb[Utterances].rows) = nUtt + 1
        /\ \A i \in 1..nUtt :
              /\ Len(wb[Utterances].rows[i + 1]) = nCoding + 4
              /\ wb[Utterances].rows[i + 1][1].int = interview.utterances[i].line_number
              /\ wb[Utterances].rows[i + 1][2].int = interview.utterances[i].utterance_number
              /\ wb[Utterances].rows[i + 1][3].text = interview.utterances[i].speaker_role
              /\ \A j \in 1..nCoding : wb[Utterances].rows[i + 1][3 + j] = None
              /\ wb[Utterances].rows[i + 1][nCoding + 4].text
                    = interview.utterances[i].utterance_text

C8_Witness ==
    /\ InterviewBuilt
    /\ nUtt = 2
    /\ nCoding >= 1
    /\ interview.utterances[1] # interview.utterances[2]

\* C9: the global property at position k is written on row k+1 of the Global
\* Ratings sheet, whatever the number of coding properties before it, and the
\* k-th rule wired on that sheet reads that property's reference sheet and
\* targets the single cell B(k+1).
C9_GlobalRowsAgree ==
    GlobalBuilt =>
        /\ \A k \in 1..nGlobal :
              wb[GlobalData].rows[k + 1][1].text = iacfg.global_properties[k].display_name
        /\ \A k \in 1..Len(GlobalRules(wb)) :
              /\ GlobalRules(wb)[k].formula1.sheet = SheetName(iacfg.global_properties[k])
              /\ GlobalRules(wb)[k].sqref =
                    [min_col |-> 2, min_row |-> k + 1, max_col |-> 2, max_row |-> k + 1]

C9_Witness ==
    pc = "done" /\ nGlobal >= 2 /\ nCoding >= 1

\* the column identifiers computed for the coding properties are single letters
\* and name the columns of the properties' headers: unlocking met no identifier
\* that is no column and unlocked the columns 4..3+C, the idx formatted for the
\* j-th coding property is the letter of column 3+j, and the j-th rule sits on
\* the column whose header is that property's name
IdentifiersAreHeaderColumns ==
    /\ err.at # "unlock"
    /\ (InterviewBuilt /\ nUtt >= 1) =>
          { c[1] : c \in wb[Utterances].unlocked } = 4..(3 + nCoding)
    /\ (pc \in {"loop", "done"} /\ cp_index >= 2 /\ cp_index - 1 <= nCoding) =>
          idx = GetColumnLetter(3 + (cp_index - 1))
    /\ (pc = "raised" /\ err.at = "dv.add" /\ cp_index <= nCoding) =>
          idx = GetColumnLetter(3 + cp_index)
    /\ \A j \in 1..Len(InterviewRules(wb)) :
          /\ InterviewRules(wb)[j].sqref.min_col = 3 + j
          /\ InterviewRules(wb)[j].sqref.max_col = 3 + j
          /\ wb[Utterances].rows[1][3 + j].text = iacfg.coding_properties[j].display_name

\* C10 as stated: single-letter addressing serves every configuration with at
\* most 26 coding properties.
C10_SingleLetterUpTo26 ==
    nCoding <= 26 => IdentifiersAreHeaderColumns

\* C10 as amended: single-letter addressing serves every configuration with at
\* most 23 coding properties, the letters D to Z that follow the three fixed
\* columns.
C10_SingleLetterUpTo23 ==
    nCoding <= AddressableCodingColumns => IdentifiersAreHeaderColumns

C10_Witness ==
    nCoding = AddressableCodingColumns /\ nUtt >= 1 /\ pc = "done"

====
